---- MODULE Spec2Model ----
(***************************************************************************)
(* Model of the rotate tool of Uranium (plugins/Tools/RotateTool) together *)
(* with the collaborators it drives: the renderer's picking, the drag      *)
(* plane, the selection, the tool handle and the operation stack.          *)
(*                                                                         *)
(* One action models one call of RotateTool.event(event); the variable ret *)
(* holds what that call returned.                                          *)
(***************************************************************************)
EXTENDS Integers, Sequences, FiniteSets, TLC

\* ---------------------------------------------------------------- bounds
\* The ray/plane intersection points of a drag lie within MaxCoord of the
\* handle along the locked axis.
MaxCoord == 1
\* Largest number of operations kept in the operation stack's history.
MaxOps == 2
\* Largest number of lines of a values file.
MaxLines == 2
\* Largest number of mesh load jobs started.
MaxJobs == 2
\* Largest number of platform events delivered to the key device.
MaxKeys == 3
\* Largest number of calls made on the setting definitions model.
MaxCalls == 5

\* ------------------------------------------------------------ value types
\* Picking ids returned by Renderer.getIdAtCoordinate: 0 (nothing under the
\* cursor), the id of an ordinary object, or the id of one of the axis handles.
XAxis == "XAxis"
YAxis == "YAxis"
ZAxis == "ZAxis"
NoId == "NoId"
ObjectId == "ObjectId"
Ids == {NoId, ObjectId, XAxis, YAxis, ZAxis}
None == "None"
\* "no vector" (a None where a Vector is expected) and "no distance" (the None
\* of Plane.intersectsRay).
NoVector == << >>
NoDistance == -1

\* ToolHandle.isAxis(id)
isAxis(id) == id \in {XAxis, YAxis, ZAxis}

\* Vector.Unit_X / Unit_Y / Unit_Z
Unit_X == <<1, 0, 0>>
Unit_Y == <<0, 1, 0>>
Unit_Z == <<0, 0, 1>>

\* Vector.__sub__
VSub(a, b) == <<a[1] - b[1], a[2] - b[2], a[3] - b[3]>>

\* Vector.length(), kept exact as the square of the Euclidean norm.
LengthSq(v) == v[1] * v[1] + v[2] * v[2] + v[3] * v[3]

\* Scene nodes that can be selected, and their (fixed) global positions.
Nodes == {1, 2}
getGlobalPosition(node) == IF node = 1 THEN <<0, 0, 0>> ELSE <<1, 1, 1>>

\* The selections the tool is used with, as Selection.getAllSelectedObjects() returns
\* them: nothing, or both nodes in either order.
Selections == {<< >>, <<1, 2>>, <<2, 1>>}

\* A rotation angle is sign * sqrt(lenSq); nan marks the undefined value 0/0.
Angle(sign, lenSq) == [sign |-> sign, lenSq |-> lenSq, nan |-> FALSE]
NaN == [sign |-> 0, lenSq |-> 0, nan |-> TRUE]

\* --------------------------------------------------------------- state
VARIABLES
    locked_axis,   \* RotateTool._locked_axis: None or an axis id
    drag,          \* RotateTool._drag
    target,        \* RotateTool._target: None or a vector
    handle,        \* RotateToolHandle: [parent, position, activeAxis]
    selection,     \* Selection: sequence of selected nodes
    history,       \* OperationStack: sequence of operations
    cursor,        \* OperationStack: number of operations currently applied
    transform,     \* per node, the rotations applied to it, oldest first
    ret,           \* what the last call of event() returned: "True", "False",
                   \* "None" (no value), or "raise"
    values,        \* MachineSettings: per setting key, the setting's value
    mcall,         \* the last call made on the MachineSettings object
    mret,          \* what that call returned: a value, "None", or "raise"
    jobs,          \* the ReadMeshJobs started, in order of their start
    root,          \* the nodes added under the scene's root, in order
    sceneLog,      \* the operations pushed and sceneChanged signals emitted
    lastUrl,       \* the url of the last readLocalFile call
    qtEvents,      \* the platform events delivered to QtKeyDevice.handleEvent
    published,     \* the KeyEvents QtKeyDevice emitted to its subscribers
    sdm,           \* the SettingDefinitionsModel object: its fields
    sret,          \* what the last call on it returned
    calls          \* the number of calls made on it

vars == <<locked_axis, drag, target, handle, selection, history, cursor,
          transform, ret, values, mcall, mret, jobs, root, sceneLog, lastUrl,
          qtEvents, published, sdm, sret, calls>>

rotateVars == <<locked_axis, drag, target, handle, selection, history, cursor,
                transform, ret>>
settingsVars == <<values, mcall, mret>>
\* What the rotate tool and the operation stack leave alone.
meshVars == <<jobs, root, sceneLog, lastUrl>>
keyVars == <<qtEvents, published>>
defsVars == <<sdm, sret, calls>>
otherVars == <<settingsVars, meshVars, keyVars, defsVars>>

toolVars == <<locked_axis, drag, target>>
stackVars == <<history, cursor, transform>>

\* ------------------------------------------------- operation stack (pure)
\* The state the operation stack works on.
World == [history |-> history, cursor |-> cursor, transform |-> transform]

\* RotateOperation(node, axis, rotation): remembers the node's transform at
\* construction time.
RotateOperation(w, node, axis, rotation) ==
    [node |-> node, axis |-> axis, angle |-> rotation, old |-> w.transform[node]]

\* SceneNode.rotateByAngleAxis: the rotation is composed onto the transform.
rotateByAngleAxis(xf, axis, angle) == Append(xf, [axis |-> axis, angle |-> angle])

\* Operation.redo of a RotateOperation
OpRedo(w, op) ==
    [w EXCEPT !.transform[op.node] = rotateByAngleAxis(@, op.axis, op.angle)]

\* Mutant of OpUndo: undo by rotating back by the opposite angle.
OpUndoInverse(w, op) ==
    [w EXCEPT !.transform[op.node] =
        rotateByAngleAxis(@, op.axis, [op.angle EXCEPT !.sign = 0 - op.angle.sign])]

\* Operation.undo of a RotateOperation: the snapshot is restored verbatim.
OpUndo(w, op) == [w EXCEPT !.transform[op.node] = op.old]

\* Mutant of StackPush: the redo tail is kept and the operation appended to it.
StackPushKeepsTail(w, op) ==
    OpRedo([w EXCEPT !.history = Append(w.history, op),
                     !.cursor = w.cursor + 1], op)

\* OperationStack.push(op): truncate the redo tail, append, apply.
StackPush(w, op) ==
    OpRedo([w EXCEPT !.history = Append(SubSeq(w.history, 1, w.cursor), op),
                     !.cursor = w.cursor + 1], op)

\* OperationStack.undo()
StackUndo(w) ==
    IF w.cursor = 0 THEN w
    ELSE OpUndo([w EXCEPT !.cursor = w.cursor - 1], w.history[w.cursor])

\* Mutant of StackRedo: the operation is re-applied, the cursor stays.
StackRedoKeepsCursor(w) ==
    IF w.cursor = Len(w.history) THEN w
    ELSE OpRedo(w, w.history[w.cursor + 1])

\* OperationStack.redo()
StackRedo(w) ==
    IF w.cursor = Len(w.history) THEN w
    ELSE OpRedo([w EXCEPT !.cursor = w.cursor + 1], w.history[w.cursor + 1])

\* ------------------------------------------------------------ rotate tool
\* Lines 81-83: one RotateOperation per selected node, pushed in order.
RECURSIVE PushForSelection(_, _, _, _)
PushForSelection(w, sel, axis, rotation) ==
    IF sel = << >> THEN w
    ELSE PushForSelection(StackPush(w, RotateOperation(w, Head(sel), axis, rotation)),
                          Tail(sel), axis, rotation)

\* Lines 54-59: the drag plane for the locked axis, as the index of the
\* coordinate that is fixed on the plane: Plane(Vector(0, 0, 1), handlePos.z)
\* for X and Y, Plane(Vector(0, 1, 0), handlePos.y) for Z.
PlaneCoord(axis) == IF axis = ZAxis THEN 2 ELSE 3

\* Lines 71-79: the unit vector of the locked axis.
AxisVector(axis) ==
    IF axis = XAxis THEN Unit_X ELSE IF axis = YAxis THEN Unit_Y ELSE Unit_Z

\* Lines 73/76/79: the component of diff along the locked axis.
AxisComponent(diff, axis) ==
    IF axis = XAxis THEN diff[1] ELSE IF axis = YAxis THEN diff[2] ELSE diff[3]

Abs(x) == IF x < 0 THEN -x ELSE x

\* Mutant of SignedRotation: the component itself is taken as the rotation.
SignedRotationComponent(diff, axis) ==
    Angle(AxisComponent(diff, axis) \div Abs(AxisComponent(diff, axis)),
          AxisComponent(diff, axis) * AxisComponent(diff, axis))

\* Lines 69-79: rotation = (c / abs(c)) * diff.length() for c # 0.
SignedRotation(diff, axis) ==
    Angle(AxisComponent(diff, axis) \div Abs(AxisComponent(diff, axis)), LengthSq(diff))

\* Line 63: the results plane.intersectsRay(ray) can have: no distance, or the
\* distance t along the ray at which it meets the plane (0 when the ray starts
\* on the plane).
Distances == {NoDistance, 0, 1}

\* The places a drag takes the cursor to, relative to the handle: d[1] along
\* the locked axis and d[2] along the drag plane's other direction.  They are
\* the places on the axis within MaxCoord of the handle and one place off it.
Offsets == {<<a, 0>> : a \in -MaxCoord..MaxCoord} \cup {<<0, 1>>}

\* Line 65: the points ray.getPointAlongRay(newTarget) can be, all of them on
\* the drag plane.
PlanePoints(axis, handlePos) ==
    {[i \in 1..3 |-> IF i = PlaneCoord(axis) THEN handlePos[i]
                     ELSE IF AxisVector(axis)[i] = 1 THEN handlePos[i] + d[1]
                     ELSE handlePos[i] + d[2]] : d \in Offsets}


\* ------------------------------------------------------- machine settings
\* MachineSettings._categories: the categories in order, each with the keys
\* of its settings.
categories == << <<"k1">>, <<"k2">> >>
SettingKeys == {"k1", "k2"}
\* Keys that callers and files use: those of the settings and one of no setting.
Keys == SettingKeys \cup {"nokey"}
\* Values that callers and files give to settings.
Values == {"0", "5", "7"}

\* A line of a values file: its words in order, with " " for each run of
\* white space between and around them (the line end included).
Blank == " "
CategoryWord == "CATEGORY:"
Lines ==
    { <<Blank>>,
      <<"k1", Blank>>,
      <<"nokey", Blank>>,
      <<"k1", Blank, "5", Blank>>,
      <<"k2", Blank, "7", Blank>>,
      <<CategoryWord, Blank, "k1", Blank>> }

\* The values files: up to MaxLines lines.
Files == UNION {[1..n -> Lines] : n \in 0..MaxLines}

\* str.split(): the words of the line, white space dropped.
Split(line) == SelectSeq(line, LAMBDA x : x # Blank)

\* Line 29: "CATEGORY" in line
HasCategory(line) == \E i \in 1..Len(line) : line[i] = CategoryWord

\* Lines 69-74: the first category that has a setting of that key gives it;
\* a setting is known by its key.
getSettingByKey(key) ==
    IF \E c \in 1..Len(categories) :
          \E i \in 1..Len(categories[c]) : categories[c][i] = key
    THEN key
    ELSE None

\* The state of a load: the settings' values and whether the load has raised.
LoadState(vals, raised) == [values |-> vals, raised |-> raised]

\* Mutant of LoadLine: the IndexError of a missing value is not caught.
LoadLineUncaught(vals, line) ==
    LET data == Split(line)
        setting == getSettingByKey(data[1])
    IN IF HasCategory(line) THEN LoadState(vals, FALSE)
       ELSE IF Len(data) = 0 THEN LoadState(vals, TRUE)
       ELSE IF setting = None THEN LoadState(vals, FALSE)
       ELSE IF Len(data) < 2 THEN LoadState(vals, TRUE)
       ELSE LoadState([vals EXCEPT ![setting] = data[2]], FALSE)

\* Lines 29-38: one turn of the loop over the file's lines.  data[0] is read
\* outside the try (line 32) and raises IndexError when the line has no word;
\* data[1] is read inside it (line 36), where the IndexError is caught.
LoadLine(vals, line) ==
    LET data == Split(line)
        setting == getSettingByKey(data[1])
    IN IF HasCategory(line) THEN LoadState(vals, FALSE)
       ELSE IF Len(data) = 0 THEN LoadState(vals, TRUE)
       ELSE IF setting = None THEN LoadState(vals, FALSE)
       ELSE IF Len(data) < 2 THEN LoadState(vals, FALSE)
       ELSE LoadState([vals EXCEPT ![setting] = data[2]], FALSE)

\* Lines 26-38: the loop; an exception that leaves it ends the load.
RECURSIVE LoadLines(_, _)
LoadLines(vals, file) ==
    IF file = << >> THEN LoadState(vals, FALSE)
    ELSE LET r == LoadLine(vals, Head(file))
         IN IF r.raised THEN r ELSE LoadLines(r.values, Tail(file))

\* The calls made on the MachineSettings object.
Call(op, key, value, file) == [op |-> op, key |-> key, value |-> value, file |-> file]
NoCall == Call("none", None, None, << >>)

\* --------------------------------------------------------- mesh file handler
\* The QUrls readLocalFile is called with: an invalid one and two of local
\* files of the same name in different directories.
NoUrl == ""
Urls == {NoUrl, "file:///m/a.stl", "file:///n/a.stl"}

\* QUrl.isValid()
isValid(url) == url # NoUrl

\* QUrl.toLocalFile()
toLocalFile(url) == IF url = "file:///m/a.stl" THEN "/m/a.stl" ELSE "/n/a.stl"

\* os.path.basename
basename(path) == IF path \in {"/m/a.stl", "/n/a.stl"} THEN "a.stl" ELSE path

\* job.getResult() of a job that failed or has not finished: no node.  The node
\* a job constructs is known by the job's number.
NoNode == 0

\* ReadMeshJob(file_name), started.
ReadMeshJob(file_name) == [file |-> file_name, state |-> "running", result |-> NoNode]

\* The two effects on the scene that are logged.
Pushed(node) == [kind |-> "AddSceneNodeOperation", node |-> node, parent |-> "root"]
SceneChanged(node) == [kind |-> "sceneChanged", node |-> node, parent |-> "root"]

\* ---------------------------------------------------------------- key device
\* QEvent types delivered to the device, and the key codes they carry.
QtTypes == {"KeyPress", "KeyRelease", "MouseMove"}
QtKeys == {65, 66}
QtEvent(type, key) == [type |-> type, key |-> key]

\* Lines 19-20: _qtKeyToCuraKey
qtKeyToCuraKey(key) == key

\* KeyEvent(kind, key)
KeyEvent(kind, key) == [kind |-> kind, key |-> key]

\* ------------------------------------------------- setting definitions model
\* The DefinitionContainers of the registry, by id, and an id of none.
ContainerIds == {"c1", "c2"}
UnknownContainerId == "cX"

\* A SettingDefinition is known by its container and its key; NoDef stands for
\* None where a definition is expected.
Def(c, key) == [c |-> c, key |-> key]
NoDef == Def(None, "")

\* The trees: in c1 the category A with child B with child C, in c2 the
\* category A with child B.  DefKeys(c) is the tree of c in depth-first order.
DefKeys(c) == IF c = "c1" THEN <<"A", "B", "C">> ELSE <<"A", "B">>
ParentKey(key) == IF key = "B" THEN "A" ELSE IF key = "C" THEN "B" ELSE ""
DefinitionKeys == {"A", "B", "C"}

\* SettingDefinition.parent
Parent(d) == IF ParentKey(d.key) = "" THEN NoDef ELSE Def(d.c, ParentKey(d.key))

\* SettingDefinition.children, in order
Children(d) ==
    LET ks == SelectSeq(DefKeys(d.c), LAMBDA k : ParentKey(k) = d.key)
    IN [i \in 1..Len(ks) |-> Def(d.c, ks[i])]

\* SettingDefinition.type
Type(d) == IF d.key = "A" THEN "category" ELSE "int"

\* SettingDefinition.getAncestors(): the keys of the ancestors
RECURSIVE getAncestors(_)
getAncestors(d) ==
    IF Parent(d) = NoDef THEN {} ELSE {Parent(d).key} \cup getAncestors(Parent(d))

\* SettingDefinition.findDefinitions() without criteria: the definition and
\* its descendants, depth first.
RECURSIVE SubtreeOf(_), SubtreesOf(_)
SubtreeOf(d) == <<d>> \o SubtreesOf(Children(d))
SubtreesOf(ds) == IF ds = << >> THEN << >> ELSE SubtreeOf(Head(ds)) \o SubtreesOf(Tail(ds))

\* DefinitionContainer.findDefinitions() without criteria: all its definitions
AllDefinitions(c) == [i \in 1..Len(DefKeys(c)) |-> Def(c, DefKeys(c)[i])]

\* DefinitionContainer.findDefinitions(key = key)
findDefinitions(c, key) == SelectSeq(AllDefinitions(c), LAMBDA d : d.key = key)

\* ContainerRegistry.findDefinitionContainers(id = container_id)
findDefinitionContainers(id) == IF id \in ContainerIds THEN <<id>> ELSE << >>

\* The filter dictionaries: the empty one and one that B does not match.
NoFilter == "{}"
Filters == {NoFilter, "f"}
matchesFilter(d, filter) == d.key # "B"

\* list.index(x) of Python, counted from 0; NotInList when x is not in it
\* (the call raises ValueError).
NotInList == -1
RECURSIVE ListIndexFrom(_, _, _)
ListIndexFrom(list, x, i) ==
    IF i > Len(list) THEN NotInList
    ELSE IF list[i] = x THEN i - 1
    ELSE ListIndexFrom(list, x, i + 1)
ListIndex(list, x) == ListIndexFrom(list, x, 1)

\* set(list)
SetOf(list) == {list[i] : i \in 1..Len(list)}

\* list.insert(row, x), rows counted from 0
ListInsert(list, row, x) ==
    SubSeq(list, 1, row) \o <<x>> \o SubSeq(list, row + 1, Len(list))

\* Lines 508-526: _isAnyDescendantVisible
RECURSIVE isAnyDescendantVisible(_, _)
isAnyDescendantVisible(m, d) ==
    \/ m.show_all
    \/ \E i \in 1..Len(Children(d)) :
          LET child == Children(d)[i]
          IN /\ child.key \notin m.exclude
             /\ ~(m.filter_dict # NoFilter /\ ~matchesFilter(child, m.filter_dict))
             /\ (child.key \in m.visible \/ isAnyDescendantVisible(m, child))

\* Lines 477-506: _isDefinitionVisible
isDefinitionVisible(m, d) ==
    /\ d.key \notin m.exclude
    /\ getAncestors(d) \cap m.exclude = {}
    /\ ~(Parent(d) # NoDef /\ Parent(d).key \notin m.expanded)
    /\ ~(~m.show_all /\ d.key \notin m.visible)
    /\ ~(m.filter_dict # NoFilter /\ ~matchesFilter(d, m.filter_dict))
    /\ (Type(d) = "category" => isAnyDescendantVisible(m, d))

\* Lines 530-538: the row of the nearest ancestor that is displayed, 0 when
\* there is none; NotInList when an ancestor is not in the definition list
\* (_definition_list.index raises ValueError at line 533).
RECURSIVE ParentRow(_, _)
ParentRow(m, parent) ==
    IF parent = NoDef THEN 0
    ELSE IF ListIndex(m.definition_list, parent) = NotInList THEN NotInList
    ELSE IF ListIndex(m.row_index_list, ListIndex(m.definition_list, parent)) # NotInList
    THEN ListIndex(m.row_index_list, ListIndex(m.definition_list, parent))
    ELSE ParentRow(m, Parent(parent))

\* Lines 540-547: the first row from insert_row on that holds no smaller index
RECURSIVE ScanRows(_, _, _)
ScanRows(rows, insert_row, index) ==
    IF insert_row < Len(rows) /\ rows[insert_row + 1] < index
    THEN ScanRows(rows, insert_row + 1, index)
    ELSE insert_row

\* Lines 528-547: _findRowToInsert(index)
findRowToInsert(m, index) ==
    LET parent_row == ParentRow(m, Parent(m.definition_list[index + 1]))
    IN IF parent_row = NotInList THEN NotInList
       ELSE ScanRows(m.row_index_list, parent_row, index)

\* The least element of a non-empty set of numbers
Min(S) == CHOOSE x \in S : \A y \in S : x <= y

\* Lines 462-466: the indexes to add are inserted one by one, in order; an
\* exception of _findRowToInsert ends the update where it is.
RECURSIVE InsertRows(_, _)
InsertRows(m, to_add) ==
    IF to_add = {} THEN m
    ELSE LET index == Min(to_add)
             row == findRowToInsert(m, index)
         IN IF row = NotInList THEN [m EXCEPT !.raised = TRUE]
            ELSE InsertRows([m EXCEPT !.row_index_list = ListInsert(@, row, index)],
                            to_add \ {index})

\* Lines 447-475: _updateVisibleRows
updateVisibleRows(m) ==
    LET currently_visible == SetOf(m.row_index_list)
        new_visible == {index \in 0..(Len(m.definition_list) - 1) :
                            isDefinitionVisible(m, m.definition_list[index + 1])}
        to_add == new_visible \ currently_visible
        to_remove == currently_visible \ new_visible
        added == InsertRows(m, to_add)
    IN IF added.raised THEN added
       ELSE [added EXCEPT !.row_index_list = SelectSeq(@, LAMBDA index : index \notin to_remove)]

\* Lines 425-441: _update
update(m) ==
    IF m.container = None THEN m
    ELSE updateVisibleRows(
            [m EXCEPT !.row_index_list = << >>,
                      !.definition_list = IF m.root # NoDef THEN SubtreeOf(m.root)
                                          ELSE AllDefinitions(m.container)])

\* Lines 28-48: the model object after __init__; raised tells whether the last
\* call on it ended with an exception.
NewModel ==
    [container_id |-> None, container |-> None, root_key |-> "", root |-> NoDef,
     definition_list |-> << >>, row_index_list |-> << >>,
     expanded |-> {}, visible |-> {}, exclude |-> {}, show_all |-> FALSE,
     visibility_handler |-> FALSE, filter_dict |-> NoFilter, raised |-> FALSE]

\* A call starts with no exception pending.
Called(m) == [m EXCEPT !.raised = FALSE]

\* Lines 61-73: setContainerId(container_id)
SetContainerId(m, container_id) ==
    IF container_id = m.container_id THEN m
    ELSE update([m EXCEPT !.container_id = container_id,
                          !.container = IF findDefinitionContainers(container_id) # << >>
                                        THEN findDefinitionContainers(container_id)[1]
                                        ELSE None])

\* Lines 82-96: setRootKey(key)
SetRootKey(m, key) ==
    IF key = m.root_key THEN m
    ELSE IF m.container = None THEN [m EXCEPT !.root_key = key]
    ELSE IF findDefinitions(m.container, key) = << >> THEN [m EXCEPT !.root_key = key]
    ELSE update([m EXCEPT !.root_key = key, !.root = findDefinitions(m.container, key)[1]])

\* Lines 105-110: setShowAll(show)
SetShowAll(m, show) ==
    IF show = m.show_all THEN m ELSE updateVisibleRows([m EXCEPT !.show_all = show])

\* Lines 413-419: _onVisibilityChanged, the handler holding the set visible
onVisibilityChanged(m, handler_visible) ==
    updateVisibleRows([m EXCEPT !.visible = handler_visible])

\* Lines 120-131: setVisibilityHandler(visibility_handler), with a handler
\* that holds the set handler_visible, or with none
SetVisibilityHandler(m, installs, handler_visible) ==
    IF installs THEN onVisibilityChanged([m EXCEPT !.visibility_handler = TRUE], handler_visible)
    ELSE [m EXCEPT !.visibility_handler = FALSE]

\* Lines 140-146: setExclude(exclude)
SetExclude(m, exclude) ==
    IF exclude = m.exclude THEN m ELSE updateVisibleRows([m EXCEPT !.exclude = exclude])

\* Lines 158-165: the set a list given to setExpanded stands for
NewExpanded(m, expanded) ==
    UNION {IF expanded[i] = "*"
           THEN {d.key : d \in {x \in SetOf(m.definition_list) : Children(x) # << >>}}
           ELSE {expanded[i]} : i \in 1..Len(expanded)}

\* Lines 156-170: setExpanded(expanded)
SetExpanded(m, expanded) ==
    IF NewExpanded(m, expanded) = m.expanded THEN m
    ELSE updateVisibleRows([m EXCEPT !.expanded = NewExpanded(m, expanded)])

\* Lines 203-207: setFilter(filter_dict)
SetFilter(m, filter_dict) ==
    IF filter_dict = m.filter_dict THEN m
    ELSE updateVisibleRows([m EXCEPT !.filter_dict = filter_dict])

\* Lines 215-220: expand(key)
Expand(m, key) == updateVisibleRows([m EXCEPT !.expanded = @ \cup {key}])

\* Lines 223-235: expandAll(key); ExpandAllOf is the loop over the children.
RECURSIVE ExpandAll(_, _), ExpandAllOf(_, _)
ExpandAll(m, key) ==
    IF m.container = None THEN m
    ELSE IF findDefinitions(m.container, key) = << >> THEN m
    ELSE LET expanded == Expand(m, key)
         IN IF expanded.raised THEN expanded
            ELSE ExpandAllOf(expanded, Children(findDefinitions(m.container, key)[1]))
ExpandAllOf(m, children) ==
    IF children = << >> \/ m.raised THEN m
    ELSE ExpandAllOf(IF Children(Head(children)) # << >>
                     THEN ExpandAll(m, Head(children).key) ELSE m,
                     Tail(children))

\* Lines 237-257: collapse(key); CollapseOf is the loop over the children.
RECURSIVE Collapse(_, _), CollapseOf(_, _)
Collapse(m, key) ==
    IF m.container = None THEN m
    ELSE IF key \notin m.expanded THEN m
    ELSE IF findDefinitions(m.container, key) = << >> THEN m
    ELSE LET collapsed == CollapseOf([m EXCEPT !.expanded = @ \ {key}],
                                     Children(findDefinitions(m.container, key)[1]))
         IN IF collapsed.raised THEN collapsed ELSE updateVisibleRows(collapsed)
CollapseOf(m, children) ==
    IF children = << >> \/ m.raised THEN m
    ELSE CollapseOf(IF Children(Head(children)) # << >>
                    THEN Collapse(m, Head(children).key) ELSE m,
                    Tail(children))

\* Lines 283-305: setVisible(key, visible).  Without a container, line 294
\* raises AttributeError.  The handler takes the changed set and answers with
\* visibilityChanged, which _onVisibilityChanged handles.
SetVisible(m, key, visible) ==
    IF key \in m.visible /\ visible THEN m
    ELSE IF key \notin m.visible /\ ~visible THEN m
    ELSE IF m.container = None THEN [m EXCEPT !.raised = TRUE]
    ELSE IF findDefinitions(m.container, key) = << >> THEN m
    ELSE LET changed == [m EXCEPT !.visible = IF visible THEN @ \cup {key} ELSE @ \ {key}]
         IN IF m.visibility_handler THEN onVisibilityChanged(changed, changed.visible)
            ELSE changed

\* getIndex's results besides a row: Raised for an exception, and NoValue for
\* a call that returns nothing.
Raised == -3
NoValue == -2

\* Lines 307-318: getIndex(key).  Without a container line 309 raises
\* AttributeError; for a definition that is not in the definition list line
\* 313 raises ValueError.
GetIndex(m, key) ==
    IF m.container = None THEN Raised
    ELSE IF findDefinitions(m.container, key) = << >> THEN -1
    ELSE IF ListIndex(m.definition_list, findDefinitions(m.container, key)[1]) = NotInList
    THEN Raised
    ELSE ListIndex(m.row_index_list,
                   ListIndex(m.definition_list, findDefinitions(m.container, key)[1]))

\* ------------------------------------------------------------- initial state
Init ==
    /\ locked_axis = None
    /\ drag = FALSE
    /\ target = NoVector
    /\ handle = [parent |-> None, position |-> <<0, 0, 0>>, activeAxis |-> None]
    /\ selection \in Selections
    /\ history = << >>
    /\ cursor = 0
    /\ transform = [n \in Nodes |-> << >>]
    /\ ret = "None"
    /\ values = [k \in SettingKeys |-> "0"]
    /\ mcall = NoCall
    /\ mret = None
    /\ jobs = << >>
    /\ root = << >>
    /\ sceneLog = << >>
    /\ lastUrl = NoUrl
    /\ qtEvents = << >>
    /\ published = << >>
    /\ sdm = NewModel
    /\ sret = NoValue
    /\ calls = 0

\* ----------------------------------------------------------------- actions
\* Mutant of ToolActivate: the handle is put at the last selected object.
ToolActivateAtLast ==
    /\ IF selection = << >>
       THEN /\ handle' = [handle EXCEPT !.parent = "root"]
            /\ ret' = "raise"
       ELSE /\ handle' = [handle EXCEPT !.parent = "root",
                                        !.position = getGlobalPosition(selection[Len(selection)])]
            /\ ret' = "None"
    /\ UNCHANGED <<toolVars, selection, stackVars>>

\* Lines 25-27: ToolActivateEvent.  Selection.getSelectedObject(0) on an empty
\* selection has no object to return and the call chain raises after the
\* handle was parented.
ToolActivate ==
    /\ IF selection = << >>
       THEN /\ handle' = [handle EXCEPT !.parent = "root"]
            /\ ret' = "raise"
       ELSE /\ handle' = [handle EXCEPT !.parent = "root",
                                        !.position = getGlobalPosition(selection[1])]
            /\ ret' = "None"
    /\ UNCHANGED <<toolVars, selection, stackVars>>

\* Lines 94-95: ToolDeactivateEvent
ToolDeactivate ==
    /\ handle' = [handle EXCEPT !.parent = None]
    /\ ret' = "None"
    /\ UNCHANGED <<toolVars, selection, stackVars>>

\* Mutant of MousePress: whatever is under the cursor is locked.
MousePressAnyId(id) ==
    /\ IF id = NoId
       THEN UNCHANGED toolVars
       ELSE /\ locked_axis' = id
            /\ drag' = TRUE
            /\ UNCHANGED target
    /\ ret' = "None"
    /\ UNCHANGED <<handle, selection, stackVars>>

\* Lines 29-36: MousePressEvent
MousePress(id) ==
    /\ IF id = NoId
       THEN UNCHANGED toolVars
       ELSE IF isAxis(id)
            THEN /\ locked_axis' = id
                 /\ drag' = TRUE
                 /\ UNCHANGED target
            ELSE UNCHANGED toolVars
    /\ ret' = "None"
    /\ UNCHANGED <<handle, selection, stackVars>>

\* Lines 40-45: hover highlighting, done only while no axis is locked.
Hover(id) ==
    IF locked_axis = None
    THEN IF id = NoId THEN [handle EXCEPT !.activeAxis = None]
         ELSE IF isAxis(id) THEN [handle EXCEPT !.activeAxis = id]
         ELSE handle
    ELSE handle

\* Mutant of MouseMoveIdle: a move outside a drag stores a target.
MouseMoveIdleStoresTarget(id) ==
    /\ ~drag
    /\ handle' = Hover(id)
    /\ target' = handle.position
    /\ ret' = "False"
    /\ UNCHANGED <<locked_axis, drag, selection, stackVars>>

\* Lines 38-48: MouseMoveEvent while not dragging
MouseMoveIdle(id) ==
    /\ ~drag
    /\ handle' = Hover(id)
    /\ ret' = "False"
    /\ UNCHANGED <<toolVars, selection, stackVars>>

\* Mutant of MouseMoveMiss: a sample without intersection forgets the target.
MouseMoveMissResets(id, t) ==
    /\ drag
    /\ t \in {NoDistance, 0}
    /\ handle' = handle
    /\ target' = NoVector
    /\ ret' = "True"
    /\ UNCHANGED <<locked_axis, drag, selection, stackVars>>

\* Lines 38-86: MouseMoveEvent while dragging, the ray missing the plane or
\* intersectsRay returning a distance that tests false (line 64).
MouseMoveMiss(id, t) ==
    /\ drag
    /\ t \in {NoDistance, 0}
    /\ handle' = Hover(id)
    /\ ret' = "True"
    /\ UNCHANGED <<toolVars, selection, stackVars>>

\* Lines 64-66, 85: the first sample of a drag only stores the target.
MouseMoveFirst(id, t, point) ==
    /\ drag
    /\ t > 0
    /\ target = NoVector
    /\ handle' = Hover(id)
    /\ target' = VSub(handle.position, point)
    /\ ret' = "True"
    /\ UNCHANGED <<locked_axis, drag, selection, stackVars>>

\* Lines 66-85: a later sample with a nonzero component along the locked
\* axis pushes one RotateOperation per selected node.
MouseMoveRotate(id, t, point) ==
    /\ drag
    /\ t > 0
    /\ target # NoVector
    /\ LET n == VSub(handle.position, point)
           diff == VSub(n, target)
       IN /\ AxisComponent(diff, locked_axis) # 0
          /\ cursor + Len(selection) <= MaxOps
          /\ LET w == PushForSelection(World, selection, AxisVector(locked_axis),
                                       SignedRotation(diff, locked_axis))
             IN /\ history' = w.history
                /\ cursor' = w.cursor
                /\ transform' = w.transform
          /\ target' = n
    /\ handle' = Hover(id)
    /\ ret' = "True"
    /\ UNCHANGED <<locked_axis, drag, selection>>

\* Lines 73/76/79 with a zero component along the locked axis: 0 / abs(0).
\* Either the division raises (ZeroDivisionError) and the handler is left at
\* that line, or it yields NaN and the handler goes on with a NaN rotation.
MouseMoveZero(id, t, point, raises) ==
    /\ drag
    /\ t > 0
    /\ target # NoVector
    /\ LET n == VSub(handle.position, point)
           diff == VSub(n, target)
       IN /\ AxisComponent(diff, locked_axis) = 0
          /\ IF raises
             THEN /\ ret' = "raise"
                  /\ UNCHANGED <<target, stackVars>>
             ELSE /\ cursor + Len(selection) <= MaxOps
                  /\ LET w == PushForSelection(World, selection,
                                               AxisVector(locked_axis), NaN)
                     IN /\ history' = w.history
                        /\ cursor' = w.cursor
                        /\ transform' = w.transform
                  /\ target' = n
                  /\ ret' = "True"
    /\ handle' = Hover(id)
    /\ UNCHANGED <<locked_axis, drag, selection>>

\* Mutant of MouseRelease: the target of the drag is kept.
MouseReleaseKeepsTarget ==
    /\ drag' = FALSE
    /\ locked_axis' = None
    /\ ret' = "True"
    /\ UNCHANGED <<target, handle, selection, stackVars>>

\* Lines 88-92: MouseReleaseEvent
MouseRelease ==
    /\ target' = NoVector
    /\ drag' = FALSE
    /\ locked_axis' = None
    /\ ret' = "True"
    /\ UNCHANGED <<handle, selection, stackVars>>

\* The user undoes / redoes through the operation stack.
Undo ==
    /\ LET w == StackUndo(World)
       IN /\ history' = w.history
          /\ cursor' = w.cursor
          /\ transform' = w.transform
    /\ ret' = "None"
    /\ UNCHANGED <<toolVars, handle, selection>>

Redo ==
    /\ LET w == StackRedo(World)
       IN /\ history' = w.history
          /\ cursor' = w.cursor
          /\ transform' = w.transform
    /\ ret' = "None"
    /\ UNCHANGED <<toolVars, handle, selection>>


\* Lines 26-38: MachineSettings.loadValuesFromFile(file_name)
loadValuesFromFile(file) ==
    /\ LET r == LoadLines(values, file)
       IN /\ values' = r.values
          /\ mret' = IF r.raised THEN "raise" ELSE None
    /\ mcall' = Call("loadValuesFromFile", None, None, file)

\* Mutant of setSettingValueByKey: a key of no setting sets the first setting.
setSettingValueByKeyDefault(key, value) ==
    /\ values' = IF getSettingByKey(key) # None
                  THEN [values EXCEPT ![getSettingByKey(key)] = value]
                  ELSE [values EXCEPT ![categories[1][1]] = value]
    /\ mret' = None
    /\ mcall' = Call("setSettingValueByKey", key, value, << >>)

\* Lines 90-93: MachineSettings.setSettingValueByKey(key, value)
setSettingValueByKey(key, value) ==
    /\ values' = IF getSettingByKey(key) # None
                  THEN [values EXCEPT ![getSettingByKey(key)] = value]
                  ELSE values
    /\ mret' = None
    /\ mcall' = Call("setSettingValueByKey", key, value, << >>)

\* Lines 95-101: MachineSettings.getSettingValueByKey(key)
getSettingValueByKey(key) ==
    /\ mret' = IF getSettingByKey(key) # None THEN values[getSettingByKey(key)]
                ELSE None
    /\ mcall' = Call("getSettingValueByKey", key, None, << >>)
    /\ UNCHANGED values

\* Lines 55-61: MeshFileHandlerProxy.readLocalFile(file)
readLocalFile(url) ==
    /\ lastUrl' = url
    /\ IF ~isValid(url)
       THEN UNCHANGED jobs
       ELSE /\ Len(jobs) < MaxJobs
            /\ jobs' = Append(jobs, ReadMeshJob(toLocalFile(url)))
    /\ UNCHANGED <<root, sceneLog>>

\* The job's run off the main thread ends, with a node or (failed read) with
\* none; its finished signal is on its way to the main thread.
JobFinishes(j, ok) ==
    /\ j \in 1..Len(jobs)
    /\ jobs[j].state = "running"
    /\ jobs' = [jobs EXCEPT ![j].state = "finished",
                            ![j].result = IF ok THEN j ELSE NoNode]
    /\ UNCHANGED <<root, sceneLog, lastUrl>>

\* Mutant of readMeshFinished: the result is not tested.
readMeshFinishedUntested(j) ==
    /\ j \in 1..Len(jobs)
    /\ jobs[j].state = "finished"
    /\ jobs' = [jobs EXCEPT ![j].state = "handled"]
    /\ root' = Append(root, [node |-> jobs[j].result, selectable |-> TRUE,
                             name |-> basename(jobs[j].file)])
    /\ sceneLog' = sceneLog \o <<Pushed(jobs[j].result), SceneChanged(jobs[j].result)>>
    /\ UNCHANGED lastUrl

\* Lines 63-72: MeshFileHandlerProxy._readMeshFinished(job), on the main thread
readMeshFinished(j) ==
    /\ j \in 1..Len(jobs)
    /\ jobs[j].state = "finished"
    /\ jobs' = [jobs EXCEPT ![j].state = "handled"]
    /\ IF jobs[j].result # NoNode
       THEN /\ root' = Append(root, [node |-> jobs[j].result, selectable |-> TRUE,
                                     name |-> basename(jobs[j].file)])
            /\ sceneLog' = sceneLog \o <<Pushed(jobs[j].result),
                                          SceneChanged(jobs[j].result)>>
       ELSE UNCHANGED <<root, sceneLog>>
    /\ UNCHANGED lastUrl

\* Mutant of handleEvent: every platform event is published as a key press.
handleEventAny(event) ==
    /\ Len(qtEvents) < MaxKeys
    /\ qtEvents' = Append(qtEvents, event)
    /\ published' = Append(published, KeyEvent("KeyPressEvent", qtKeyToCuraKey(event.key)))

\* Lines 11-17: QtKeyDevice.handleEvent(event)
handleEvent(event) ==
    /\ Len(qtEvents) < MaxKeys
    /\ qtEvents' = Append(qtEvents, event)
    /\ published' =
          IF event.type = "KeyPress"
          THEN Append(published, KeyEvent("KeyPressEvent", qtKeyToCuraKey(event.key)))
          ELSE IF event.type = "KeyRelease"
          THEN Append(published, KeyEvent("KeyReleaseEvent", qtKeyToCuraKey(event.key)))
          ELSE published

\* The arguments the setting definitions model is called with.
ContainerIdArgs == ContainerIds \cup {UnknownContainerId}
RootKeyArgs == DefinitionKeys \cup {""}
ExcludeArgs == {{}, {"B"}}
ExpandedArgs == {<< >>, <<"*">>, <<"B">>}
HandlerVisibles == {{}, DefinitionKeys}

\* A call on the model that returns nothing: the object becomes m, and the
\* call has raised if m says so.
ModelCall(m) ==
    /\ calls < MaxCalls
    /\ calls' = calls + 1
    /\ sdm' = m
    /\ sret' = IF m.raised THEN Raised ELSE NoValue

setContainerId(container_id) == ModelCall(SetContainerId(Called(sdm), container_id))

setRootKey(key) == ModelCall(SetRootKey(Called(sdm), key))

setShowAll(all) == ModelCall(SetShowAll(Called(sdm), all))

setVisibilityHandler(installs, handler_visible) ==
    ModelCall(SetVisibilityHandler(Called(sdm), installs, handler_visible))

setExclude(exclude) == ModelCall(SetExclude(Called(sdm), exclude))

setExpanded(expanded) == ModelCall(SetExpanded(Called(sdm), expanded))

setFilter(filter_dict) == ModelCall(SetFilter(Called(sdm), filter_dict))

expand(key) == ModelCall(Expand(Called(sdm), key))

expandAll(key) == ModelCall(ExpandAll(Called(sdm), key))

collapse(key) == ModelCall(Collapse(Called(sdm), key))

\* Lines 260-262: show(key)
show(key) == ModelCall(SetVisible(Called(sdm), key, TRUE))

\* Lines 265-267: hide(key)
hide(key) == ModelCall(SetVisible(Called(sdm), key, FALSE))

\* Lines 307-318: getIndex(key) changes nothing and returns a row or -1.
getIndex(key) ==
    /\ calls < MaxCalls
    /\ calls' = calls + 1
    /\ sdm' = [sdm EXCEPT !.raised = (GetIndex(sdm, key) = Raised)]
    /\ sret' = GetIndex(sdm, key)

\* The events the controller delivers to the tool; nothing else is going on.
Next ==
    \/ ToolActivate /\ UNCHANGED otherVars
    \/ ToolDeactivate /\ UNCHANGED otherVars
    \/ \E id \in Ids : MousePress(id) /\ UNCHANGED otherVars
    \/ \E id \in Ids : MouseMoveIdle(id) /\ UNCHANGED otherVars
    \/ \E id \in Ids, t \in Distances : MouseMoveMiss(id, t) /\ UNCHANGED otherVars
    \/ \E id \in Ids, t \in Distances, p \in PlanePoints(locked_axis, handle.position) :
          MouseMoveFirst(id, t, p) /\ UNCHANGED otherVars
    \/ \E id \in Ids, t \in Distances, p \in PlanePoints(locked_axis, handle.position) :
          MouseMoveRotate(id, t, p) /\ UNCHANGED otherVars
    \/ \E id \in Ids, t \in Distances, p \in PlanePoints(locked_axis, handle.position) :
          \E raises \in BOOLEAN : MouseMoveZero(id, t, p, raises) /\ UNCHANGED otherVars
    \/ MouseRelease /\ UNCHANGED otherVars

Spec == Init /\ [][Next]_vars

\* Drags of the Z handle with nothing else under the cursor, interleaved with
\* the user's undo and redo.
NextStack ==
    \/ ToolActivate /\ UNCHANGED otherVars
    \/ MousePress(ZAxis) /\ UNCHANGED otherVars
    \/ \E t \in Distances : MouseMoveMiss(NoId, t) /\ UNCHANGED otherVars
    \/ \E t \in Distances, p \in PlanePoints(locked_axis, handle.position) :
          MouseMoveFirst(NoId, t, p) /\ UNCHANGED otherVars
    \/ \E t \in Distances, p \in PlanePoints(locked_axis, handle.position) :
          MouseMoveRotate(NoId, t, p) /\ UNCHANGED otherVars
    \/ \E t \in Distances, p \in PlanePoints(locked_axis, handle.position) :
          \E raises \in BOOLEAN : MouseMoveZero(NoId, t, p, raises) /\ UNCHANGED otherVars
    \/ MouseRelease /\ UNCHANGED otherVars
    \/ Undo /\ UNCHANGED otherVars
    \/ Redo /\ UNCHANGED otherVars

SpecStack == Init /\ [][NextStack]_vars

\* The calls the application makes on the machine settings.
NextSettings ==
    \/ \E file \in Files :
          loadValuesFromFile(file) /\ UNCHANGED <<rotateVars, meshVars, keyVars, defsVars>>
    \/ \E key \in Keys, value \in Values :
          setSettingValueByKey(key, value) /\ UNCHANGED <<rotateVars, meshVars, keyVars, defsVars>>
    \/ \E key \in Keys :
          getSettingValueByKey(key) /\ UNCHANGED <<rotateVars, meshVars, keyVars, defsVars>>

\* Meshes are read into the scene: calls of readLocalFile, job runs ending and
\* completions handled, in any order.
NextMesh ==
    \/ \E url \in Urls :
          readLocalFile(url) /\ UNCHANGED <<rotateVars, settingsVars, keyVars, defsVars>>
    \/ \E j \in 1..MaxJobs, ok \in BOOLEAN :
          JobFinishes(j, ok) /\ UNCHANGED <<rotateVars, settingsVars, keyVars, defsVars>>
    \/ \E j \in 1..MaxJobs :
          readMeshFinished(j) /\ UNCHANGED <<rotateVars, settingsVars, keyVars, defsVars>>

\* The platform delivers its events to the key device.
NextKeys ==
    \E type \in QtTypes, key \in QtKeys :
        handleEvent(QtEvent(type, key))
            /\ UNCHANGED <<rotateVars, settingsVars, meshVars, defsVars>>

\* The user interface calls the setting definitions model.
NextDefs ==
    \/ \E id \in ContainerIdArgs :
          setContainerId(id) /\ UNCHANGED <<rotateVars, settingsVars, meshVars, keyVars>>
    \/ \E key \in RootKeyArgs :
          setRootKey(key) /\ UNCHANGED <<rotateVars, settingsVars, meshVars, keyVars>>
    \/ \E all \in BOOLEAN :
          setShowAll(all) /\ UNCHANGED <<rotateVars, settingsVars, meshVars, keyVars>>
    \/ \E installs \in BOOLEAN, hv \in HandlerVisibles :
          setVisibilityHandler(installs, hv)
            /\ UNCHANGED <<rotateVars, settingsVars, meshVars, keyVars>>
    \/ \E exclude \in ExcludeArgs :
          setExclude(exclude) /\ UNCHANGED <<rotateVars, settingsVars, meshVars, keyVars>>
    \/ \E expanded \in ExpandedArgs :
          setExpanded(expanded) /\ UNCHANGED <<rotateVars, settingsVars, meshVars, keyVars>>
    \/ \E filter \in Filters :
          setFilter(filter) /\ UNCHANGED <<rotateVars, settingsVars, meshVars, keyVars>>
    \/ \E key \in DefinitionKeys :
          expand(key) /\ UNCHANGED <<rotateVars, settingsVars, meshVars, keyVars>>
    \/ \E key \in DefinitionKeys :
          expandAll(key) /\ UNCHANGED <<rotateVars, settingsVars, meshVars, keyVars>>
    \/ \E key \in DefinitionKeys :
          collapse(key) /\ UNCHANGED <<rotateVars, settingsVars, meshVars, keyVars>>
    \/ \E key \in DefinitionKeys :
          show(key) /\ UNCHANGED <<rotateVars, settingsVars, meshVars, keyVars>>
    \/ \E key \in DefinitionKeys :
          hide(key) /\ UNCHANGED <<rotateVars, settingsVars, meshVars, keyVars>>
    \/ \E key \in DefinitionKeys :
          getIndex(key) /\ UNCHANGED <<rotateVars, settingsVars, meshVars, keyVars>>

\* Settings, mesh reading and the key device are used with nothing selected.
InitNoSelection == Init /\ selection = << >>

SpecSettings == InitNoSelection /\ [][NextSettings]_vars

SpecMesh == InitNoSelection /\ [][NextMesh]_vars

SpecKeys == InitNoSelection /\ [][NextKeys]_vars

SpecDefs == InitNoSelection /\ [][NextDefs]_vars

\* ------------------------------------------------------------ event kinds
\* Line 29: a step that handles some MousePressEvent.
MousePressEvent == \E id \in Ids : MousePress(id)

\* Line 38: a step that handles some MouseMoveEvent.
MouseMoveEvent ==
    \/ \E id \in Ids : MouseMoveIdle(id)
    \/ \E id \in Ids, t \in Distances : MouseMoveMiss(id, t)
    \/ \E id \in Ids, t \in Distances, p \in PlanePoints(locked_axis, handle.position) :
          \/ MouseMoveFirst(id, t, p)
          \/ MouseMoveRotate(id, t, p)
          \/ \E raises \in BOOLEAN : MouseMoveZero(id, t, p, raises)

\* Lines 29, 38, 88: a step that handles a mouse event.
MouseEvent == MousePressEvent \/ MouseMoveEvent \/ MouseRelease

\* Lines 61-65: a step that handles a MouseMoveEvent whose ray meets the drag
\* plane at distance t, in point p.
MouseMoveSample(t, p) ==
    \E id \in Ids :
        \/ t = 0 /\ MouseMoveMiss(id, t)
        \/ MouseMoveFirst(id, t, p)
        \/ MouseMoveRotate(id, t, p)
        \/ \E raises \in BOOLEAN : MouseMoveZero(id, t, p, raises)

\* ------------------------------------------------------------------ claims
\* C1: every MousePress, MouseMove and MouseRelease event that arrives while
\* the tool is dragging is answered with "consumed" (True).
C1_DragEventsConsumed ==
    [][(drag /\ MouseEvent) => ret' = "True"]_vars

\* C2: every MousePress, MouseMove and MouseRelease event handled while the
\* tool is not dragging, before and after, is answered with "not consumed"
\* (False or no value).
C2_IdleEventsNotConsumed ==
    [][(~drag /\ ~drag' /\ MouseEvent) => ret' \in {"False", "None"}]_vars

\* The step pushed k RotateOperations, one per selected node in order, each
\* about the unit vector of the locked axis, on top of the applied operations.
PushedForSelection(k) ==
    /\ cursor' = cursor + k
    /\ Len(history') = cursor'
    /\ SubSeq(history', 1, cursor) = SubSeq(history, 1, cursor)
    /\ \A i \in 1..k : /\ history'[cursor + i].node = selection[i]
                       /\ history'[cursor + i].axis = AxisVector(locked_axis)

\* C3: in a drag with k selected nodes, the first MouseMove whose ray meets
\* the drag plane only stores the sample as the target and pushes nothing;
\* every later one pushes exactly k RotateOperations about the locked axis,
\* one per selected node, and stores the new sample as the target.
C3_DragSamples ==
    [][\A t \in Distances \ {NoDistance}, p \in PlanePoints(locked_axis, handle.position) :
         (drag /\ MouseMoveSample(t, p)) =>
            /\ target' = VSub(handle.position, p)
            /\ IF target = NoVector
               THEN UNCHANGED stackVars
               ELSE PushedForSelection(Len(selection))]_vars

\* A step that pushes for a drag sample after the first, in point p.
RotateSample(p) == \E id \in Ids, t \in Distances : MouseMoveRotate(id, t, p)

\* C4 as claimed: on a drag sample after the first, the pushed angle has the
\* sign of the locked-axis component of the movement of the intersection point
\* since the stored sample, and that movement's length as its magnitude.  (A
\* pushing sample in point p stores handle.position - p as the new target,
\* which tells p; with the handle at the origin, where it then has been all
\* along, the stored sample's intersection point is handle.position - target.)
C4_SignFollowsIntersection ==
    [][(cursor' > cursor /\ target' # NoVector /\ handle.position = <<0, 0, 0>>) =>
         LET p == VSub(handle.position, target')
             delta == VSub(p, VSub(handle.position, target))
             c == AxisComponent(delta, locked_axis)
         IN RotateSample(p) =>
               \A i \in (cursor + 1)..cursor' :
                   history'[i].angle = Angle(IF c > 0 THEN 1 ELSE -1, LengthSq(delta))]_vars

\* C4 as amended: on a drag sample after the first, the pushed angle has the
\* sign of the locked-axis component of diff = (handle position - intersection
\* point) - target and the length of diff as its magnitude; diff is the negated
\* movement of the intersection point, so with Z locked and the intersection
\* point shifted by (0, 0, 2) the pushed angle is -2.
C4_SignFollowsTargetDelta ==
    [][(cursor' > cursor /\ target' # NoVector) =>
         LET p == VSub(handle.position, target')
             diff == VSub(VSub(handle.position, p), target)
             c == AxisComponent(diff, locked_axis)
             moved == VSub(p, VSub(handle.position, target))
         IN RotateSample(p) =>
               \A i \in (cursor + 1)..cursor' :
                   /\ history'[i].angle = Angle(IF c > 0 THEN 1 ELSE -1, LengthSq(diff))
                   /\ (locked_axis = ZAxis /\ moved = <<0, 0, 2>>)
                         => history'[i].angle = Angle(-1, 4)]_vars

\* A Z drag whose intersection point moved by (0, 0, 2) has pushed its
\* operation.
C4_Witness ==
    \E i \in 1..Len(history) :
        history[i].axis = Unit_Z /\ history[i].angle = Angle(-1, 4)

\* C5: a drag sample whose delta has a zero component along the locked axis
\* is handled without an arithmetic error and has no rotational effect on any
\* node: the transform is as before, or extended by rotations by zero only.
C5_ZeroComponentHarmless ==
    [][(\E id \in Ids, t \in Distances, p \in PlanePoints(locked_axis, handle.position),
           raises \in BOOLEAN : MouseMoveZero(id, t, p, raises)) =>
          /\ ret' # "raise"
          /\ \A n \in Nodes :
                /\ Len(transform'[n]) >= Len(transform[n])
                /\ SubSeq(transform'[n], 1, Len(transform[n])) = transform[n]
                /\ \A i \in (Len(transform[n]) + 1)..Len(transform'[n]) :
                      /\ ~transform'[n][i].angle.nan
                      /\ transform'[n][i].angle.lenSq = 0]_vars

\* C6: handling ToolActivateEvent with an empty selection does not raise.
C6_ActivateEmptySelection ==
    [][(selection = << >> /\ ToolActivate) => ret' # "raise"]_vars

\* C7: a MouseMove during a drag whose ray does not meet the drag plane pushes
\* no operation and leaves the target, the drag flag, the locked axis and the
\* scene (the handle and the nodes' transforms) as they were.
C7_MissChangesNothing ==
    [][(drag /\ \E id \in Ids : MouseMoveMiss(id, NoDistance)) =>
          UNCHANGED <<target, drag, locked_axis, handle, history, cursor, transform>>]_vars

\* A drag has handled a move (it returned True) and still has no target: the
\* ray of that move did not meet the drag plane.
C7_Witness == drag /\ target = NoVector /\ ret = "True"

\* C8: in Idle, a press on an axis handle starts a drag with exactly that axis
\* locked; a press on nothing or on another object leaves the drag flag, the
\* locked axis and the target as they were.
C8_PressLocksAxis ==
    [][\A id \in Ids :
         (~drag /\ MousePress(id)) =>
            IF isAxis(id)
            THEN drag' /\ locked_axis' = id /\ target' = target
            ELSE UNCHANGED <<drag, locked_axis, target>>]_vars

\* The press on the Y handle has just started a drag.
C8_Witness == drag /\ locked_axis = YAxis /\ target = NoVector /\ ret = "None"

\* C9: after a MouseRelease the tool is in Idle (no drag, no locked axis, no
\* target); while it is, a MouseMove pushes no operation, and only a press on
\* an axis handle ends Idle.
C9_ReleaseToIdle ==
    [][/\ MouseRelease => (~drag' /\ locked_axis' = None /\ target' = NoVector)
       /\ (~drag /\ locked_axis = None /\ target = NoVector /\ MouseMoveEvent)
             => UNCHANGED <<history, cursor, transform, drag, locked_axis, target>>
       /\ (~drag /\ drag') => \E id \in {XAxis, YAxis, ZAxis} : MousePress(id)]_vars

\* A drag that pushed operations has been released.
C9_Witness == ~drag /\ ret = "True" /\ cursor > 0 /\ target = NoVector

\* The rotations the law of C10 is tried with in every reachable state.
SomeAngles == {Angle(1, 1), Angle(-1, 4), NaN}

\* C10: in every state push/undo/redo and the tool's drags lead to, pushing an
\* operation and undoing at once leaves every node's transform exactly as it
\* was before the push.
C10_PushUndoRestores ==
    \A node \in Nodes, axis \in {Unit_X, Unit_Y, Unit_Z}, angle \in SomeAngles :
        StackUndo(StackPush(World, RotateOperation(World, node, axis, angle))).transform
            = transform

\* Operations pushed by a drag, the last of them undone: a push would cut the
\* redo tail here.
C10_Witness ==
    /\ cursor > 0
    /\ cursor < Len(history)
    /\ transform[history[cursor].node] # << >>

\* C11: in every state push/undo/redo and the tool's drags lead to, undo
\* followed at once by redo gives back the history, the cursor and every node's
\* transform as they were before the undo; undo with the cursor at the start
\* and redo with the cursor at the end change nothing.
C11_UndoRedoRoundTrip ==
    /\ cursor > 0 => StackRedo(StackUndo(World)) = World
    /\ cursor = 0 => StackUndo(World) = World
    /\ cursor = Len(history) => StackRedo(World) = World

\* With the tool never activated and no drag in progress, the last call was a
\* redo that brought the cursor to the end of a history of pushed operations.
C11_Witness ==
    /\ cursor > 0
    /\ cursor = Len(history)
    /\ ret = "None"
    /\ ~drag
    /\ handle.parent = None

\* C12: a drag sample that pushes while undone operations are in the history
\* discards them: after it the history is the operations before the cursor
\* followed by the pushed ones, the cursor is at its end and redo changes
\* nothing.
C12_PushTruncatesRedoTail ==
    [][(cursor < Len(history) /\ cursor' > cursor /\ MouseMoveEvent) =>
          /\ SubSeq(history', 1, cursor) = SubSeq(history, 1, cursor)
          /\ Len(history') = cursor'
          /\ PushedForSelection(Len(selection))
          /\ StackRedo([history |-> history', cursor |-> cursor',
                        transform |-> transform']).cursor = cursor'
          /\ StackRedo([history |-> history', cursor |-> cursor',
                        transform |-> transform']).transform = transform']_vars

\* Operations were undone while a drag with a stored target goes on, and the
\* history has room: the next sample of the drag pushes onto a redo tail.
C12_Witness ==
    /\ cursor < Len(history)
    /\ drag
    /\ target # NoVector
    /\ cursor + Len(selection) <= MaxOps

\* A key matches no setting in any category.
NoSuchSetting(key) ==
    \A c \in 1..Len(categories) : \A i \in 1..Len(categories[c]) : categories[c][i] # key

\* C13: setSettingValueByKey with a key of no setting leaves every setting's
\* value as it was and does not raise; getSettingValueByKey with such a key
\* returns None, does not raise and changes no setting.
C13_UnknownKeyHarmless ==
    [][\A key \in Keys :
         NoSuchSetting(key) =>
            /\ \A value \in Values :
                  setSettingValueByKey(key, value) => (values' = values /\ mret' # "raise")
            /\ getSettingValueByKey(key) => (values' = values /\ mret' = None)]_vars

\* A value was set under a key of no setting while the settings had values of
\* their own.
C13_Witness ==
    /\ mcall.op = "setSettingValueByKey"
    /\ NoSuchSetting(mcall.key)
    /\ mcall.value = "5"
    /\ values["k1"] = "7"
    /\ mret # "raise"

\* A line of a values file that sets a value: not a category header, and at
\* least a key and a value.
WellFormed(line) == ~HasCategory(line) /\ Len(Split(line)) >= 2

\* What a values file asks for: the values after every well-formed line whose
\* key names a setting was applied, in order.
RECURSIVE ApplyWellFormed(_, _)
ApplyWellFormed(vals, file) ==
    IF file = << >> THEN vals
    ELSE IF WellFormed(Head(file)) /\ Split(Head(file))[1] \in SettingKeys
         THEN ApplyWellFormed([vals EXCEPT ![Split(Head(file))[1]] = Split(Head(file))[2]],
                              Tail(file))
         ELSE ApplyWellFormed(vals, Tail(file))

\* The file without its lines of a key and no value.
WithoutKeyOnly(file) == SelectSeq(file, LAMBDA line : Len(Split(line)) # 1)

\* Every line of the file has at least one word.
NoWordlessLine(file) == \A i \in 1..Len(file) : Len(Split(file[i])) >= 1

\* The step is a call of loadValuesFromFile, with the file mcall' tells.
LoadedFile == mcall'.op = "loadValuesFromFile" /\ loadValuesFromFile(mcall'.file)

\* C14: loading a values file has the outcome of loading it without its lines
\* of a key and no value (whether or not the key names a setting); and when all
\* the other lines have words, the load does not raise and every well-formed
\* line, those after a key-only line included, is applied.
C14_KeyOnlyLineIgnored ==
    [][LoadedFile =>
         LET file == mcall'.file
             r == LoadLines(values, WithoutKeyOnly(file))
         IN /\ values' = r.values
            /\ (mret' = "raise") = r.raised
            /\ NoWordlessLine(file) =>
                  (mret' # "raise" /\ values' = ApplyWellFormed(values, file))]_vars

\* A file whose first line is the key of a setting alone and whose second
\* line sets another setting has been loaded, and that setting has the value.
C14_Witness ==
    /\ mcall.op = "loadValuesFromFile"
    /\ mcall.file = << <<"k1", Blank>>, <<"k2", Blank, "7", Blank>> >>
    /\ values["k2"] = "7"
    /\ mret = None

\* C15: loading a values file never raises, and applies every well-formed
\* line, whatever lines of too few words (one or none) the file has.
C15_ShortLinesIgnored ==
    [][LoadedFile =>
         (mret' # "raise" /\ values' = ApplyWellFormed(values, mcall'.file))]_vars

\* The nodes of the jobs whose completion was handled and carried a node.
HandledNodes == {jobs[j].result : j \in {i \in 1..Len(jobs) : jobs[i].state = "handled"}} \ {NoNode}

\* The scene holds what the handled completions brought and nothing else: the
\* log is a row of pairs, an AddSceneNodeOperation under the root followed by
\* the sceneChanged of the same node, one pair for each handled node.
SceneFollowsCompletions ==
    /\ Len(sceneLog) = 2 * Cardinality(HandledNodes)
    /\ Len(root) = Cardinality(HandledNodes)
    /\ {root[i].node : i \in 1..Len(root)} = HandledNodes
    /\ \A i \in 1..Len(root) :
          /\ sceneLog[2 * i - 1] = Pushed(root[i].node)
          /\ sceneLog[2 * i] = SceneChanged(root[i].node)

\* C16: whatever jobs were started and in whatever order they complete, the
\* scene changes only when a completion is handled, never in readLocalFile or
\* when a job's run ends; a completion with a node pushes one add-node
\* operation under the root and then emits sceneChanged for the node; a
\* completion without a node and a readLocalFile with an invalid url change
\* nothing in the scene and emit nothing.
C16_SceneMutatedOnCompletion ==
    [][/\ (root' # root \/ sceneLog' # sceneLog) => \E j \in 1..Len(jobs) : readMeshFinished(j)
       /\ \A j \in 1..Len(jobs) :
             readMeshFinished(j) =>
                IF jobs[j].result # NoNode
                THEN /\ sceneLog' = sceneLog \o <<Pushed(jobs[j].result),
                                                   SceneChanged(jobs[j].result)>>
                     /\ Len(root') = Len(root) + 1
                     /\ root'[Len(root')].node = jobs[j].result
                ELSE UNCHANGED <<root, sceneLog>>
       /\ readLocalFile(NoUrl) => UNCHANGED <<jobs, root, sceneLog>>
       /\ SceneFollowsCompletions']_vars

\* Two jobs completed with nodes, the second handled before the first; the
\* last readLocalFile call had an invalid url.
C16_Witness ==
    /\ Len(jobs) = 2
    /\ Len(root) = 2
    /\ root[1].node = 2
    /\ root[2].node = 1
    /\ lastUrl = NoUrl

\* What the device is to publish for a platform event.
Canonical(event) ==
    IF event.type = "KeyPress" THEN <<KeyEvent("KeyPressEvent", event.key)>>
    ELSE IF event.type = "KeyRelease" THEN <<KeyEvent("KeyReleaseEvent", event.key)>>
    ELSE << >>

\* C18: for a platform KeyPress the device publishes one KeyEvent of kind
\* KeyPressEvent, for a KeyRelease one of kind KeyReleaseEvent, each with the
\* platform key code as it is, and for any other platform event nothing;
\* what it publishes for an event does not depend on the events before it.
C18_OneKeyEventPerKey ==
    [][\A type \in QtTypes, key \in QtKeys :
         handleEvent(QtEvent(type, key)) =>
            published' = published \o Canonical(QtEvent(type, key))]_vars

\* A key press, another platform event and the key's release were delivered,
\* and the press and the release were published.
C18_Witness ==
    /\ qtEvents = <<QtEvent("KeyPress", 65), QtEvent("MouseMove", 65),
                    QtEvent("KeyRelease", 65)>>
    /\ published = <<KeyEvent("KeyPressEvent", 65), KeyEvent("KeyReleaseEvent", 65)>>

\* C17: with a non-empty selection, handling ToolActivate leaves the handle
\* attached to the scene root and at the global position of selected object 0,
\* handling ToolDeactivate leaves it detached, and no mouse event changes the
\* handle's parent; so the handle's parent always tells the last lifecycle
\* event.
C17_HandleFollowsLifecycle ==
    [][selection # << >> =>
         /\ ToolActivate => /\ handle'.parent = "root"
                            /\ handle'.position = getGlobalPosition(selection[1])
         /\ ToolDeactivate => handle'.parent = None
         /\ handle'.parent # handle.parent => ~MouseEvent]_vars

\* The tool was activated with node 2 as selected object 0 and deactivated
\* later, and mouse events have started a drag since.
C17_Witness ==
    /\ selection = <<2, 1>>
    /\ handle.parent = None
    /\ handle.position = getGlobalPosition(2)
    /\ drag
    /\ target # NoVector

\* C19: after ToolActivate was handled the tool is in Idle (no drag, no locked
\* axis, no target), whatever came before; a move after it pushes nothing
\* before a new press on an axis handle.
C19_ActivateEntersIdle ==
    [][ToolActivate => (~drag' /\ locked_axis' = None /\ target' = NoVector)]_vars

\* C20: after a MouseMove handled with no axis locked, the handle's active
\* axis is the axis handle under the cursor, and none when nothing or another
\* object is under the cursor.
C20_HoverHighlightsAxisUnderCursor ==
    [][\A id \in Ids :
         (locked_axis = None /\ MouseMoveIdle(id)) =>
            handle'.activeAxis = IF isAxis(id) THEN id ELSE None]_vars

\* C25: in every state the events lead to, the tool drags exactly when an axis
\* is locked, and has no target when it does not drag; and every step that
\* pushes operations is taken while it drags.
C25_DragStateConsistent ==
    /\ [](/\ drag <=> isAxis(locked_axis)
          /\ ~drag => target = NoVector)
    /\ [][(history' # history \/ cursor' # cursor \/ transform' # transform)
             => (drag /\ drag')]_vars

\* A drag of the X handle has pushed operations and goes on.
C25_Witness ==
    /\ drag
    /\ locked_axis = XAxis
    /\ target # NoVector
    /\ cursor > 0
    /\ ret = "True"

\* The definition displayed at a row of the model, rows counted from 0.
RowDefinition(m, row) == m.definition_list[m.row_index_list[row + 1] + 1]

\* The indexes of the definitions of the list that meet the visibility
\* criteria.
VisibleIndexes(m) ==
    {index \in 0..(Len(m.definition_list) - 1) :
        isDefinitionVisible(m, m.definition_list[index + 1])}

\* C21: with a container set, whatever calls were made on the model, its row
\* list is strictly increasing and holds exactly the indexes of the
\* definitions of the definition list that meet the visibility criteria.
C21_RowsAreVisibleIndexes ==
    sdm.container # None =>
        /\ \A i \in 1..(Len(sdm.row_index_list) - 1) :
              sdm.row_index_list[i] < sdm.row_index_list[i + 1]
        /\ SetOf(sdm.row_index_list) = VisibleIndexes(sdm)

\* C22: whatever calls were made, with a container set and a root key that is
\* empty or names a definition of it, the definition list is that definition
\* with the definitions under it, or all definitions of the container when the
\* root key is empty.
C22_DefinitionListOfRoot ==
    (sdm.container # None
        /\ (sdm.root_key = "" \/ findDefinitions(sdm.container, sdm.root_key) # << >>)) =>
        sdm.definition_list =
            IF sdm.root_key = "" THEN AllDefinitions(sdm.container)
            ELSE SubtreeOf(findDefinitions(sdm.container, sdm.root_key)[1])

\* The keys of the definitions below a definition.
Descendants(d) == {x.key : x \in SetOf(SubtreeOf(d))} \ {d.key}

\* C23: after collapse(key) on a key that is expanded and names a definition
\* of the container, neither the key nor a descendant of it is in the expanded
\* set, and no descendant of it is displayed as a row.
C23_CollapseClosesSubtree ==
    [][\A key \in DefinitionKeys :
         (/\ sdm.container # None
          /\ key \in sdm.expanded
          /\ findDefinitions(sdm.container, key) # << >>
          /\ collapse(key)) =>
            LET below == Descendants(findDefinitions(sdm.container, key)[1])
            IN /\ key \notin sdm'.expanded
               /\ below \cap sdm'.expanded = {}
               /\ \A row \in 0..(Len(sdm'.row_index_list) - 1) :
                     RowDefinition(sdm', row).key \notin below]_vars

\* C24: with a container set, getIndex(key) returns the row at which the
\* definition of that key is displayed, and -1, without raising, when none
\* is: for a key of no definition of the container, for a definition the
\* visibility criteria hide and for one outside the definition list.
C24_GetIndexTotal ==
    [][\A key \in DefinitionKeys :
         (sdm.container # None /\ getIndex(key)) =>
            IF \E row \in 0..(Len(sdm.row_index_list) - 1) :
                  RowDefinition(sdm, row) = Def(sdm.container, key)
            THEN /\ sret' \in 0..(Len(sdm.row_index_list) - 1)
                 /\ RowDefinition(sdm, sret') = Def(sdm.container, key)
            ELSE sret' = -1]_vars

\* C26: in every state, each definition displayed as a row has all its
\* ancestors in the expanded set.
C26_RowsUnderExpandedAncestors ==
    \A row \in 0..(Len(sdm.row_index_list) - 1) :
        getAncestors(RowDefinition(sdm, row)) \subseteq sdm.expanded

====
